---- MODULE Spec2Model ----
(***************************************************************************)
(* Model of azurerm/internal/services/compute/virtual_machine_scale_set.go *)
(*                                                                         *)
(* The file holds pure expand / flatten mappers and an identifier parser.  *)
(* Each mapper is an operator computed as the Go code computes it; the     *)
(* state machine draws one call's input in Init and applies the mappers.   *)
(*                                                                         *)
(* Encoding of Go values                                                   *)
(*   pointer / optional   <<>> for nil, <<v>> for a pointer to v           *)
(*   []interface{}        a sequence of nodes                              *)
(*   map[string]iface     a record                                         *)
(*   error                "" for nil, the message otherwise                *)
(*   int (64 bit)         [hi, lo], value = hi * 2^32 + lo, lo an int32    *)
(*   int32                an integer in -2^31 .. 2^31 - 1                  *)
(***************************************************************************)
EXTENDS Integers, Sequences, FiniteSets, TLC

VARIABLES kind, origin, phase, input, osType, obj, err, output

vars == <<kind, origin, phase, input, osType, obj, err, output>>

----------------------------------------------------------------------------
(* Bounds of the model *)

\* longest identifier path, in segments
MaxSegments == 4
\* largest high word of a Go int drawn for a rolling percentage
MaxHi == 1

\* upper limit of validation.IntBetween(0, 1023) on disk_size_gb
MaxDiskSizeGB == 1023

----------------------------------------------------------------------------
(* Go primitives *)

\* a nil pointer
Nil == <<>>

\* utils.Bool / utils.Int32 / utils.String: box a value behind a pointer
Ptr(v) == <<v>>

\* a Go int holding the small value v
GoInt(v) == [hi |-> 0, lo |-> v]

\* int32(x) for x of type int: keeps the low 32 bits
Int32(x) == x.lo

\* int(v) for v of type int32: sign extension
IntOfInt32(v) == [hi |-> 0, lo |-> v]

\* x > 0 for x of type int
GoIntPositive(x) == x.hi > 0 \/ (x.hi = 0 /\ x.lo > 0)

\* m[key] on a Go map[string]string: the zero value when the key is missing
MapIndex(m, key) == IF key \in DOMAIN m THEN m[key] ELSE ""

----------------------------------------------------------------------------
(* Identifier parsing *)

Segments == {"subscriptions", "sub1", "virtualMachineScaleSets", "myScaleSet", ""}

IdInputs == UNION {[1..n -> Segments] : n \in 0..MaxSegments}

RECURSIVE PathOf(_)
\* key / value pairs of a path, a later pair overwriting an earlier one
PathOf(segs) ==
  IF Len(segs) < 2 THEN [k \in {} |-> ""]
  ELSE LET front == PathOf(SubSeq(segs, 1, Len(segs) - 2))
           key == segs[Len(segs) - 1]
           value == segs[Len(segs)]
       IN [k \in DOMAIN front \cup {key} |-> IF k = key THEN value ELSE front[k]]

\* the shared path helper: fails on a path that is not a list of pairs
ParseAzureResourceID(segs) ==
  IF Len(segs) = 0 \/ Len(segs) % 2 # 0
  THEN [id |-> Nil, err |-> "No key/value pairs"]
  ELSE [id |-> Ptr([Path |-> PathOf(segs)]), err |-> ""]

ErrUnableToParse == "[ERROR] Unable to parse Virtual Machine Scale Set ID"
ErrMissingElement == "ID was missing the virtualMachineScaleSets element"

\* mutant: the empty-name guard is dropped
ParseVirtualMachineScaleSetResourceID_NoGuard(segs) ==
  LET r == ParseAzureResourceID(segs) IN
  IF r.err # "" THEN [id |-> Nil, err |-> ErrUnableToParse]
  ELSE [id |-> Ptr([Base |-> r.id[1],
                    Name |-> MapIndex(r.id[1].Path, "virtualMachineScaleSets")]),
        err |-> ""]

ParseVirtualMachineScaleSetResourceID(segs) ==
  LET r == ParseAzureResourceID(segs) IN
  IF r.err # "" THEN [id |-> Nil, err |-> ErrUnableToParse]
  ELSE LET networkSecurityGroup ==
             [Base |-> r.id[1],
              Name |-> MapIndex(r.id[1].Path, "virtualMachineScaleSets")]
       IN IF networkSecurityGroup.Name = ""
          THEN [id |-> Nil, err |-> ErrMissingElement]
          ELSE [id |-> Ptr(networkSecurityGroup), err |-> ""]

----------------------------------------------------------------------------
(* Additional capabilities *)

Booleans == {TRUE, FALSE}

OptBool == {Nil} \cup {Ptr(b) : b \in Booleans}

AdditionalCapabilitiesInputs ==
  {<<>>} \cup {<<[ultra_ssd_enabled |-> b]>> : b \in Booleans}

AdditionalCapabilitiesObjects ==
  {Nil} \cup {Ptr([UltraSSDEnabled |-> u]) : u \in OptBool}

\* mutant: an empty block expands to no object
ExpandVirtualMachineScaleSetAdditionalCapabilities_NilOnEmpty(in) ==
  IF Len(in) > 0
  THEN Ptr([UltraSSDEnabled |-> Ptr(in[1].ultra_ssd_enabled)])
  ELSE Nil

ExpandVirtualMachineScaleSetAdditionalCapabilities(in) ==
  IF Len(in) > 0
  THEN Ptr([UltraSSDEnabled |-> Ptr(in[1].ultra_ssd_enabled)])
  ELSE Ptr([UltraSSDEnabled |-> Nil])

FlattenVirtualMachineScaleSetAdditionalCapabilities(in) ==
  IF in = Nil THEN <<>>
  ELSE LET ultraSsdEnabled ==
             IF in[1].UltraSSDEnabled # Nil THEN in[1].UltraSSDEnabled[1] ELSE FALSE
       IN <<[ultra_ssd_enabled |-> ultraSsdEnabled]>>

----------------------------------------------------------------------------
(* OS disk *)

CachingTypes == {"None", "ReadOnly", "ReadWrite"}

OSDiskStorageAccountTypes == {"Premium_LRS", "Standard_LRS", "StandardSSD_LRS"}

DiffDiskOptions == {"Local"}

OperatingSystemTypes == {"Linux", "Windows"}

DiskCreateOptionTypesFromImage == "FromImage"

\* the nodes VirtualMachineScaleSetOSDiskSchema accepts, defaults filled in
VirtualMachineScaleSetOSDiskSchema ==
  [caching : CachingTypes,
   storage_account_type : OSDiskStorageAccountTypes,
   diff_disk_settings : {<<>>} \cup {<<[option |-> o]>> : o \in DiffDiskOptions},
   disk_size_gb : {GoInt(n) : n \in 0..MaxDiskSizeGB},
   write_accelerator_enabled : Booleans]

OSDiskInputs == {<<n>> : n \in VirtualMachineScaleSetOSDiskSchema}

\* OS disks as a read of the API may return them
OSDiskObjects ==
  {Nil} \cup
  {Ptr(d) : d \in
     [Caching : CachingTypes,
      ManagedDisk : {Nil} \cup {Ptr([StorageAccountType |-> s]) : s \in OSDiskStorageAccountTypes},
      WriteAcceleratorEnabled : OptBool,
      CreateOption : {DiskCreateOptionTypesFromImage},
      OsType : OperatingSystemTypes,
      DiskSizeGB : {Nil, Ptr(0), Ptr(30)},
      DiffDiskSettings : {Nil} \cup {Ptr([Option |-> o]) : o \in DiffDiskOptions}]}

\* mutant: the size is boxed whatever its value
ExpandVirtualMachineScaleSetOSDisk_AlwaysSize(in, os) ==
  LET raw == in[1] IN
  Ptr([Caching |-> raw.caching,
       ManagedDisk |-> Ptr([StorageAccountType |-> raw.storage_account_type]),
       WriteAcceleratorEnabled |-> Ptr(raw.write_accelerator_enabled),
       CreateOption |-> DiskCreateOptionTypesFromImage,
       OsType |-> os,
       DiskSizeGB |-> Ptr(Int32(raw.disk_size_gb)),
       DiffDiskSettings |->
         IF Len(raw.diff_disk_settings) > 0
         THEN Ptr([Option |-> raw.diff_disk_settings[1].option])
         ELSE Nil])

ExpandVirtualMachineScaleSetOSDisk(in, os) ==
  LET raw == in[1] IN
  Ptr([Caching |-> raw.caching,
       ManagedDisk |-> Ptr([StorageAccountType |-> raw.storage_account_type]),
       WriteAcceleratorEnabled |-> Ptr(raw.write_accelerator_enabled),
       CreateOption |-> DiskCreateOptionTypesFromImage,
       OsType |-> os,
       DiskSizeGB |->
         IF GoIntPositive(raw.disk_size_gb)
         THEN Ptr(Int32(raw.disk_size_gb))
         ELSE Nil,
       DiffDiskSettings |->
         IF Len(raw.diff_disk_settings) > 0
         THEN Ptr([Option |-> raw.diff_disk_settings[1].option])
         ELSE Nil])

FlattenVirtualMachineScaleSetOSDisk(in) ==
  IF in = Nil THEN <<>>
  ELSE LET d == in[1]
           diffDataSettings ==
             IF d.DiffDiskSettings # Nil
             THEN <<[option |-> d.DiffDiskSettings[1].Option]>>
             ELSE <<>>
           diskSizeGb ==
             IF d.DiskSizeGB # Nil /\ d.DiskSizeGB[1] # 0
             THEN IntOfInt32(d.DiskSizeGB[1])
             ELSE GoInt(0)
           storageAccountType ==
             IF d.ManagedDisk # Nil THEN d.ManagedDisk[1].StorageAccountType ELSE ""
           writeAcceleratorEnabled ==
             IF d.WriteAcceleratorEnabled # Nil THEN d.WriteAcceleratorEnabled[1] ELSE FALSE
       IN <<[caching |-> d.Caching,
             disk_size_gb |-> diskSizeGb,
             diff_data_settings |-> diffDataSettings,
             storage_account_type |-> storageAccountType,
             write_accelerator_enabled |-> writeAcceleratorEnabled]>>

----------------------------------------------------------------------------
(* Source image reference *)

OptString(s) == {Nil, Ptr(s)}

SourceImageReferenceInputs ==
  {<<>>} \cup
  {<<n>> : n \in [publisher : {"", "Canonical"}, offer : {"UbuntuServer"},
                  sku : {"", "16.04-LTS"}, version : {"latest"}]}

ImageReferenceObjects ==
  {Nil} \cup
  {Ptr(r) : r \in [ID : OptString("/images/img1"),
                   Publisher : OptString("Canonical"),
                   Offer : OptString("UbuntuServer"),
                   Sku : OptString("16.04-LTS"),
                   Version : OptString("latest")]}

ExpandVirtualMachineScaleSetSourceImageReference(in) ==
  IF Len(in) = 0 THEN Nil
  ELSE LET raw == in[1] IN
       Ptr([ID |-> Nil,
            Publisher |-> Ptr(raw.publisher),
            Offer |-> Ptr(raw.offer),
            Sku |-> Ptr(raw.sku),
            Version |-> Ptr(raw.version)])

\* the value behind a *string, the empty string behind nil
StringOrEmpty(p) == IF p # Nil THEN p[1] ELSE ""

\* mutant: the image id is not looked at
FlattenVirtualMachineScaleSetSourceImageReference_IgnoreID(in) ==
  IF in = Nil THEN <<>>
  ELSE <<[publisher |-> StringOrEmpty(in[1].Publisher),
          offer |-> StringOrEmpty(in[1].Offer),
          sku |-> StringOrEmpty(in[1].Sku),
          version |-> StringOrEmpty(in[1].Version)]>>

FlattenVirtualMachineScaleSetSourceImageReference(in) ==
  IF in = Nil \/ in[1].ID # Nil THEN <<>>
  ELSE <<[publisher |-> StringOrEmpty(in[1].Publisher),
          offer |-> StringOrEmpty(in[1].Offer),
          sku |-> StringOrEmpty(in[1].Sku),
          version |-> StringOrEmpty(in[1].Version)]>>

----------------------------------------------------------------------------
(* Upgrade policy *)

Automatic == "Automatic"
Manual == "Manual"
Rolling == "Rolling"

UpgradeModes == {Automatic, Manual, Rolling}

\* low words drawn for the rolling percentages
PercentLows == {-1, 0, 20}

\* Go ints the schema lets through for a percentage (TypeInt, not validated)
PercentInts == [hi : 0..MaxHi, lo : PercentLows]

PauseTimes == {"", "PT30S"}

AutomaticBlocks ==
  {<<>>} \cup
  {<<b>> : b \in [disable_automatic_rollback : Booleans,
                  enable_automatic_os_upgrade : Booleans]}

RollingBlocks ==
  {<<>>} \cup
  {<<b>> : b \in [max_batch_instance_percent : PercentInts,
                  max_unhealthy_instance_percent : PercentInts,
                  max_unhealthy_upgraded_instance_percent : PercentInts,
                  pause_time_between_batches : PauseTimes]}

\* the nodes VirtualMachineScaleSetUpgradePolicySchema accepts
VirtualMachineScaleSetUpgradePolicySchema ==
  [mode : UpgradeModes,
   automatic_os_upgrade_policy : AutomaticBlocks,
   rolling_upgrade_policy : RollingBlocks]

UpgradePolicyInputs == {<<n>> : n \in VirtualMachineScaleSetUpgradePolicySchema}

OptInt32 == {Nil, Ptr(0), Ptr(20)}

\* upgrade policies as a read of the API may return them
UpgradePolicyObjects ==
  {Nil} \cup
  {Ptr(p) : p \in
     [Mode : UpgradeModes,
      AutomaticOSUpgradePolicy :
        {Nil} \cup {Ptr(a) : a \in [DisableAutomaticRollback : OptBool,
                                    EnableAutomaticOSUpgrade : OptBool]},
      RollingUpgradePolicy :
        {Nil} \cup {Ptr(r) : r \in [MaxBatchInstancePercent : OptInt32,
                                    MaxUnhealthyInstancePercent : OptInt32,
                                    MaxUnhealthyUpgradedInstancePercent : OptInt32,
                                    PauseTimeBetweenBatches : OptString("PT30S")]}]}

ErrAutomaticBlockNotAllowed ==
  "A automatic_os_upgrade_policy block cannot be specified when mode is not set to Automatic"
ErrRollingBlockNotAllowed ==
  "A rolling_upgrade_policy block cannot be specified when mode is not set to Rolling"
ErrAutomaticBlockRequired ==
  "A automatic_os_upgrade_policy block must be specified when mode is set to Automatic"
ErrRollingBlockRequired ==
  "A rolling_upgrade_policy block must be specified when mode is set to Rolling"

\* the AutomaticOSUpgradePolicy built from a non-empty automatic block
ExpandAutomaticRaw(automaticPoliciesRaw) ==
  IF Len(automaticPoliciesRaw) > 0
  THEN Ptr([DisableAutomaticRollback |->
              Ptr(automaticPoliciesRaw[1].disable_automatic_rollback),
            EnableAutomaticOSUpgrade |->
              Ptr(automaticPoliciesRaw[1].enable_automatic_os_upgrade)])
  ELSE Nil

\* the RollingUpgradePolicy built from a non-empty rolling block
ExpandRollingRaw(rollingPoliciesRaw) ==
  IF Len(rollingPoliciesRaw) > 0
  THEN LET rollingRaw == rollingPoliciesRaw[1] IN
       Ptr([MaxBatchInstancePercent |->
              Ptr(Int32(rollingRaw.max_batch_instance_percent)),
            MaxUnhealthyInstancePercent |->
              Ptr(Int32(rollingRaw.max_unhealthy_instance_percent)),
            MaxUnhealthyUpgradedInstancePercent |->
              Ptr(Int32(rollingRaw.max_unhealthy_upgraded_instance_percent)),
            PauseTimeBetweenBatches |->
              Ptr(rollingRaw.pause_time_between_batches)])
  ELSE Nil

\* mutant: the two "must be specified" checks run before the rolling-block check
ExpandVirtualMachineScaleSetUpgradePolicy_Reordered(in) ==
  LET raw == in[1]
      automaticPoliciesRaw == raw.automatic_os_upgrade_policy
      rollingPoliciesRaw == raw.rolling_upgrade_policy
      policy == [Mode |-> raw.mode,
                 AutomaticOSUpgradePolicy |-> ExpandAutomaticRaw(automaticPoliciesRaw),
                 RollingUpgradePolicy |-> ExpandRollingRaw(rollingPoliciesRaw)]
  IN IF Len(automaticPoliciesRaw) > 0 /\ policy.Mode # Automatic
     THEN [policy |-> Nil, err |-> ErrAutomaticBlockNotAllowed]
     ELSE IF policy.Mode = Automatic /\ policy.AutomaticOSUpgradePolicy = Nil
     THEN [policy |-> Nil, err |-> ErrAutomaticBlockRequired]
     ELSE IF policy.Mode = Rolling /\ policy.RollingUpgradePolicy = Nil
     THEN [policy |-> Nil, err |-> ErrRollingBlockRequired]
     ELSE IF Len(rollingPoliciesRaw) > 0 /\ policy.Mode # Rolling
     THEN [policy |-> Nil, err |-> ErrRollingBlockNotAllowed]
     ELSE [policy |-> Ptr(policy), err |-> ""]

\* mutant: a rolling block is accepted whatever the mode
ExpandVirtualMachineScaleSetUpgradePolicy_NoRollingCheck(in) ==
  LET raw == in[1]
      automaticPoliciesRaw == raw.automatic_os_upgrade_policy
      rollingPoliciesRaw == raw.rolling_upgrade_policy
      policy == [Mode |-> raw.mode,
                 AutomaticOSUpgradePolicy |-> ExpandAutomaticRaw(automaticPoliciesRaw),
                 RollingUpgradePolicy |-> ExpandRollingRaw(rollingPoliciesRaw)]
  IN IF Len(automaticPoliciesRaw) > 0 /\ policy.Mode # Automatic
     THEN [policy |-> Nil, err |-> ErrAutomaticBlockNotAllowed]
     ELSE IF policy.Mode = Automatic /\ policy.AutomaticOSUpgradePolicy = Nil
     THEN [policy |-> Nil, err |-> ErrAutomaticBlockRequired]
     ELSE IF policy.Mode = Rolling /\ policy.RollingUpgradePolicy = Nil
     THEN [policy |-> Nil, err |-> ErrRollingBlockRequired]
     ELSE [policy |-> Ptr(policy), err |-> ""]

\* mutant: "Rolling without a rolling block" is not rejected
ExpandVirtualMachineScaleSetUpgradePolicy_NoRule4(in) ==
  LET raw == in[1]
      automaticPoliciesRaw == raw.automatic_os_upgrade_policy
      rollingPoliciesRaw == raw.rolling_upgrade_policy
      policy == [Mode |-> raw.mode,
                 AutomaticOSUpgradePolicy |-> ExpandAutomaticRaw(automaticPoliciesRaw),
                 RollingUpgradePolicy |-> ExpandRollingRaw(rollingPoliciesRaw)]
  IN IF Len(automaticPoliciesRaw) > 0 /\ policy.Mode # Automatic
     THEN [policy |-> Nil, err |-> ErrAutomaticBlockNotAllowed]
     ELSE IF Len(rollingPoliciesRaw) > 0 /\ policy.Mode # Rolling
     THEN [policy |-> Nil, err |-> ErrRollingBlockNotAllowed]
     ELSE IF policy.Mode = Automatic /\ policy.AutomaticOSUpgradePolicy = Nil
     THEN [policy |-> Nil, err |-> ErrAutomaticBlockRequired]
     ELSE [policy |-> Ptr(policy), err |-> ""]

\* mutant: the batch and unhealthy percentages are stored in each other's field
ExpandVirtualMachineScaleSetUpgradePolicy_SwappedPercent(in) ==
  LET raw == in[1]
      automaticPoliciesRaw == raw.automatic_os_upgrade_policy
      rollingPoliciesRaw == raw.rolling_upgrade_policy
      rolling == ExpandRollingRaw(rollingPoliciesRaw)
      policy == [Mode |-> raw.mode,
                 AutomaticOSUpgradePolicy |-> ExpandAutomaticRaw(automaticPoliciesRaw),
                 RollingUpgradePolicy |->
                   IF rolling = Nil THEN Nil
                   ELSE Ptr([rolling[1] EXCEPT
                         !.MaxBatchInstancePercent = rolling[1].MaxUnhealthyInstancePercent,
                         !.MaxUnhealthyInstancePercent = rolling[1].MaxBatchInstancePercent])]
  IN IF Len(automaticPoliciesRaw) > 0 /\ policy.Mode # Automatic
     THEN [policy |-> Nil, err |-> ErrAutomaticBlockNotAllowed]
     ELSE IF Len(rollingPoliciesRaw) > 0 /\ policy.Mode # Rolling
     THEN [policy |-> Nil, err |-> ErrRollingBlockNotAllowed]
     ELSE IF policy.Mode = Automatic /\ policy.AutomaticOSUpgradePolicy = Nil
     THEN [policy |-> Nil, err |-> ErrAutomaticBlockRequired]
     ELSE IF policy.Mode = Rolling /\ policy.RollingUpgradePolicy = Nil
     THEN [policy |-> Nil, err |-> ErrRollingBlockRequired]
     ELSE [policy |-> Ptr(policy), err |-> ""]

ExpandVirtualMachineScaleSetUpgradePolicy(in) ==
  LET raw == in[1]
      automaticPoliciesRaw == raw.automatic_os_upgrade_policy
      rollingPoliciesRaw == raw.rolling_upgrade_policy
      \* the sub-policies are only read after the check that follows their
      \* assignment has passed, so building them first changes nothing
      policy == [Mode |-> raw.mode,
                 AutomaticOSUpgradePolicy |-> ExpandAutomaticRaw(automaticPoliciesRaw),
                 RollingUpgradePolicy |-> ExpandRollingRaw(rollingPoliciesRaw)]
  IN IF Len(automaticPoliciesRaw) > 0 /\ policy.Mode # Automatic
     THEN [policy |-> Nil, err |-> ErrAutomaticBlockNotAllowed]
     ELSE IF Len(rollingPoliciesRaw) > 0 /\ policy.Mode # Rolling
     THEN [policy |-> Nil, err |-> ErrRollingBlockNotAllowed]
     ELSE IF policy.Mode = Automatic /\ policy.AutomaticOSUpgradePolicy = Nil
     THEN [policy |-> Nil, err |-> ErrAutomaticBlockRequired]
     ELSE IF policy.Mode = Rolling /\ policy.RollingUpgradePolicy = Nil
     THEN [policy |-> Nil, err |-> ErrRollingBlockRequired]
     ELSE [policy |-> Ptr(policy), err |-> ""]

\* the value behind a *bool, false behind nil
BoolOrFalse(p) == IF p # Nil THEN p[1] ELSE FALSE

\* the value behind a *int32 as an int, 0 behind nil
IntOrZero(p) == IF p # Nil THEN IntOfInt32(p[1]) ELSE GoInt(0)

FlattenAutomaticOutput(policy) ==
  <<[disable_automatic_rollback |-> BoolOrFalse(policy.DisableAutomaticRollback),
     enable_automatic_os_upgrade |-> BoolOrFalse(policy.EnableAutomaticOSUpgrade)]>>

FlattenRollingOutput(policy) ==
  <<[max_batch_instance_percent |-> IntOrZero(policy.MaxBatchInstancePercent),
     max_unhealthy_instance_percent |-> IntOrZero(policy.MaxUnhealthyInstancePercent),
     max_unhealthy_upgraded_instance_percent |->
       IntOrZero(policy.MaxUnhealthyUpgradedInstancePercent),
     pause_time_between_batches |-> StringOrEmpty(policy.PauseTimeBetweenBatches)]>>

\* mutant: an absent rolling policy flattens to a default-valued entry
FlattenVirtualMachineScaleSetUpgradePolicy_Synthesized(in) ==
  IF in = Nil THEN <<>>
  ELSE <<[mode |-> in[1].Mode,
          automatic_os_upgrade_policy |->
            IF in[1].AutomaticOSUpgradePolicy # Nil
            THEN FlattenAutomaticOutput(in[1].AutomaticOSUpgradePolicy[1])
            ELSE <<>>,
          rolling_upgrade_policy |->
            IF in[1].RollingUpgradePolicy # Nil
            THEN FlattenRollingOutput(in[1].RollingUpgradePolicy[1])
            ELSE FlattenRollingOutput([MaxBatchInstancePercent |-> Nil,
                                       MaxUnhealthyInstancePercent |-> Nil,
                                       MaxUnhealthyUpgradedInstancePercent |-> Nil,
                                       PauseTimeBetweenBatches |-> Nil])]>>

FlattenVirtualMachineScaleSetUpgradePolicy(in) ==
  IF in = Nil THEN <<>>
  ELSE <<[mode |-> in[1].Mode,
          automatic_os_upgrade_policy |->
            IF in[1].AutomaticOSUpgradePolicy # Nil
            THEN FlattenAutomaticOutput(in[1].AutomaticOSUpgradePolicy[1])
            ELSE <<>>,
          rolling_upgrade_policy |->
            IF in[1].RollingUpgradePolicy # Nil
            THEN FlattenRollingOutput(in[1].RollingUpgradePolicy[1])
            ELSE <<>>]>>

----------------------------------------------------------------------------
(* One call of a mapper, or an expand followed by a flatten *)

\* kind:   which mapper family the call belongs to
\* origin: "config" when the input is a configuration node to expand,
\*         "response" when it is an object read back from the API
\* phase:  "config" / "response" before the call, then "expanded",
\*         "failed", "flattened" or "parsed"
Init ==
  /\ err = ""
  /\ output = <<>>
  /\ \/ /\ kind = "id" /\ origin = "config" /\ phase = "config"
        /\ input \in IdInputs
        /\ osType = "" /\ obj = Nil
     \/ /\ kind = "capabilities" /\ origin = "config" /\ phase = "config"
        /\ input \in AdditionalCapabilitiesInputs
        /\ osType = "" /\ obj = Nil
     \/ /\ kind = "capabilities" /\ origin = "response" /\ phase = "response"
        /\ input = <<>>
        /\ osType = "" /\ obj \in AdditionalCapabilitiesObjects
     \/ /\ kind = "osdisk" /\ origin = "config" /\ phase = "config"
        /\ input \in OSDiskInputs
        /\ osType \in OperatingSystemTypes /\ obj = Nil
     \/ /\ kind = "osdisk" /\ origin = "response" /\ phase = "response"
        /\ input = <<>>
        /\ osType = "" /\ obj \in OSDiskObjects
     \/ /\ kind = "image" /\ origin = "config" /\ phase = "config"
        /\ input \in SourceImageReferenceInputs
        /\ osType = "" /\ obj = Nil
     \/ /\ kind = "image" /\ origin = "response" /\ phase = "response"
        /\ input = <<>>
        /\ osType = "" /\ obj \in ImageReferenceObjects
     \/ /\ kind = "upgrade" /\ origin = "config" /\ phase = "config"
        /\ input \in UpgradePolicyInputs
        /\ osType = "" /\ obj = Nil
     \/ /\ kind = "upgrade" /\ origin = "response" /\ phase = "response"
        /\ input = <<>>
        /\ osType = "" /\ obj \in UpgradePolicyObjects

ParseStep ==
  /\ kind = "id" /\ phase = "config"
  /\ LET r == ParseVirtualMachineScaleSetResourceID(input) IN
       /\ obj' = r.id
       /\ err' = r.err
       /\ phase' = IF r.err = "" THEN "parsed" ELSE "failed"
  /\ UNCHANGED <<kind, origin, input, osType, output>>

ExpandAdditionalCapabilitiesStep ==
  /\ kind = "capabilities" /\ phase = "config"
  /\ obj' = ExpandVirtualMachineScaleSetAdditionalCapabilities(input)
  /\ phase' = "expanded"
  /\ UNCHANGED <<kind, origin, input, osType, err, output>>

FlattenAdditionalCapabilitiesStep ==
  /\ kind = "capabilities" /\ phase \in {"expanded", "response"}
  /\ output' = FlattenVirtualMachineScaleSetAdditionalCapabilities(obj)
  /\ phase' = "flattened"
  /\ UNCHANGED <<kind, origin, input, osType, obj, err>>

ExpandOSDiskStep ==
  /\ kind = "osdisk" /\ phase = "config"
  /\ obj' = ExpandVirtualMachineScaleSetOSDisk(input, osType)
  /\ phase' = "expanded"
  /\ UNCHANGED <<kind, origin, input, osType, err, output>>

FlattenOSDiskStep ==
  /\ kind = "osdisk" /\ phase \in {"expanded", "response"}
  /\ output' = FlattenVirtualMachineScaleSetOSDisk(obj)
  /\ phase' = "flattened"
  /\ UNCHANGED <<kind, origin, input, osType, obj, err>>

ExpandSourceImageReferenceStep ==
  /\ kind = "image" /\ phase = "config"
  /\ obj' = ExpandVirtualMachineScaleSetSourceImageReference(input)
  /\ phase' = "expanded"
  /\ UNCHANGED <<kind, origin, input, osType, err, output>>

FlattenSourceImageReferenceStep ==
  /\ kind = "image" /\ phase \in {"expanded", "response"}
  /\ output' = FlattenVirtualMachineScaleSetSourceImageReference(obj)
  /\ phase' = "flattened"
  /\ UNCHANGED <<kind, origin, input, osType, obj, err>>

ExpandUpgradePolicyStep ==
  /\ kind = "upgrade" /\ phase = "config"
  /\ LET r == ExpandVirtualMachineScaleSetUpgradePolicy(input) IN
       /\ obj' = r.policy
       /\ err' = r.err
       /\ phase' = IF r.err = "" THEN "expanded" ELSE "failed"
  /\ UNCHANGED <<kind, origin, input, osType, output>>

FlattenUpgradePolicyStep ==
  /\ kind = "upgrade" /\ phase \in {"expanded", "response"}
  /\ output' = FlattenVirtualMachineScaleSetUpgradePolicy(obj)
  /\ phase' = "flattened"
  /\ UNCHANGED <<kind, origin, input, osType, obj, err>>

Next ==
  \/ ParseStep
  \/ ExpandAdditionalCapabilitiesStep
  \/ FlattenAdditionalCapabilitiesStep
  \/ ExpandOSDiskStep
  \/ FlattenOSDiskStep
  \/ ExpandSourceImageReferenceStep
  \/ FlattenSourceImageReferenceStep
  \/ ExpandUpgradePolicyStep
  \/ FlattenUpgradePolicyStep

Spec == Init /\ [][Next]_vars

----------------------------------------------------------------------------
(* Properties of ExpandVirtualMachineScaleSetUpgradePolicy *)

\* an expand call on an upgrade-policy node has returned
UpgradeExpandReturned ==
  kind = "upgrade" /\ origin = "config" /\ phase \in {"expanded", "failed"}

AutomaticBlockPresent(n) == Len(n.automatic_os_upgrade_policy) > 0
RollingBlockPresent(n) == Len(n.rolling_upgrade_policy) > 0

\* the four cross-field rules, as conditions on the node alone
RuleViolated(i, n) ==
  CASE i = 1 -> AutomaticBlockPresent(n) /\ n.mode # "Automatic"
    [] i = 2 -> RollingBlockPresent(n) /\ n.mode # "Rolling"
    [] i = 3 -> n.mode = "Automatic" /\ ~AutomaticBlockPresent(n)
    [] i = 4 -> n.mode = "Rolling" /\ ~RollingBlockPresent(n)

ViolatedRules(n) == {i \in 1..4 : RuleViolated(i, n)}

RuleMessage(i) ==
  CASE i = 1 -> ErrAutomaticBlockNotAllowed
    [] i = 2 -> ErrRollingBlockNotAllowed
    [] i = 3 -> ErrAutomaticBlockRequired
    [] i = 4 -> ErrRollingBlockRequired

LowestViolatedRule(n) ==
  CHOOSE i \in ViolatedRules(n) : \A j \in ViolatedRules(n) : i <= j

BlocksMatchMode(n) ==
  /\ AutomaticBlockPresent(n) <=> n.mode = "Automatic"
  /\ RollingBlockPresent(n) <=> n.mode = "Rolling"

\* C1: the expand call succeeds (policy returned, no error) exactly when the
\* automatic block is present iff mode is Automatic and the rolling block is
\* present iff mode is Rolling; otherwise it returns an error and no policy.
C1_ExpandSucceedsIffBlocksMatchMode ==
  UpgradeExpandReturned =>
    /\ (err = "" /\ obj # Nil) <=> BlocksMatchMode(input[1])
    /\ ~BlocksMatchMode(input[1]) => (err # "" /\ obj = Nil)
    /\ (input[1].mode = "Manual" /\ ~AutomaticBlockPresent(input[1])
          /\ ~RollingBlockPresent(input[1])) => err = ""
    /\ (input[1].mode = "Automatic" /\ AutomaticBlockPresent(input[1])
          /\ ~RollingBlockPresent(input[1])) => err = ""

C1_Witness ==
  /\ UpgradeExpandReturned
  /\ input[1].mode = "Automatic"
  /\ AutomaticBlockPresent(input[1]) /\ ~RollingBlockPresent(input[1])
  /\ err = "" /\ obj # Nil

\* C2: a rejected input gets the message of the lowest-numbered rule it
\* violates, and the four rules have four different messages.
C2_ErrorIsLowestViolatedRule ==
  /\ Cardinality({RuleMessage(i) : i \in 1..4}) = 4
  /\ (UpgradeExpandReturned /\ err # "") =>
       /\ ViolatedRules(input[1]) # {}
       /\ err = RuleMessage(LowestViolatedRule(input[1]))

\* mode=Automatic with only a rolling block: rules 2 and 3 are violated
C2_Witness ==
  /\ UpgradeExpandReturned
  /\ input[1].mode = "Automatic"
  /\ ~AutomaticBlockPresent(input[1]) /\ RollingBlockPresent(input[1])
  /\ ViolatedRules(input[1]) = {2, 3}
  /\ err = ErrRollingBlockNotAllowed

\* C3 as stated: no input violates more than one of the four rule conditions.
C3_AtMostOneRuleViolated ==
  UpgradeExpandReturned => Cardinality(ViolatedRules(input[1])) <= 1

\* C3 amended: an input violates at most two of the four rule conditions
\* (the pairs 1+3, 2+4 and 3+4 never occur together), and a call reports one
\* error exactly when some rule is violated, that error being a violated rule's.
C3_AtMostTwoRulesViolatedOneReported ==
  UpgradeExpandReturned =>
    LET v == ViolatedRules(input[1]) IN
    /\ Cardinality(v) <= 2
    /\ ~({1, 3} \subseteq v) /\ ~({2, 4} \subseteq v) /\ ~({3, 4} \subseteq v)
    /\ (v # {}) <=> (err # "")
    /\ err # "" => \E i \in v : err = RuleMessage(i)

\* mode=Manual with both blocks: rules 1 and 2 are violated, rule 1 reported
C3_Witness ==
  /\ UpgradeExpandReturned
  /\ input[1].mode = "Manual"
  /\ ViolatedRules(input[1]) = {1, 2}
  /\ err = ErrAutomaticBlockNotAllowed

----------------------------------------------------------------------------
(* Properties of the OS disk mapper *)

\* C4: flattening the expanded OS disk gives one node that has every key of
\* the input node (the schema's keys) with the input's value.
C4_OSDiskRoundTrip ==
  (kind = "osdisk" /\ origin = "config" /\ phase = "flattened") =>
    /\ Len(output) = 1
    /\ \A k \in DOMAIN input[1] :
         k \in DOMAIN output[1] /\ output[1][k] = input[1][k]

\* C5: the expanded OS disk never carries size 0; the size is absent for
\* disk_size_gb = 0 and equals disk_size_gb for 1..1023; CreateOption is
\* FromImage and OsType is the osType argument.
C5_ExpandedSizeNeverZero ==
  (kind = "osdisk" /\ origin = "config" /\ phase = "expanded") =>
    LET size == input[1].disk_size_gb IN
    /\ obj # Nil
    /\ obj[1].DiskSizeGB # <<0>>
    /\ (size.hi = 0 /\ size.lo = 0) => obj[1].DiskSizeGB = <<>>
    /\ (size.hi = 0 /\ size.lo \in 1..1023) => obj[1].DiskSizeGB = <<size.lo>>
    /\ obj[1].CreateOption = "FromImage"
    /\ obj[1].OsType = osType

C5_Witness ==
  /\ kind = "osdisk" /\ origin = "config" /\ phase = "expanded"
  /\ input[1].disk_size_gb = [hi |-> 0, lo |-> 1023]
  /\ obj[1].DiskSizeGB = <<1023>>
  /\ osType = "Windows"

----------------------------------------------------------------------------
(* Properties of the source image reference mapper *)

\* C6: the flattened image reference is empty when the object is absent or
\* carries an ID, whatever its other fields; otherwise it is one node of the
\* four strings, an absent string read as "".
C6_ImageReferenceEmptyWhenIDSet ==
  (kind = "image" /\ phase = "flattened") =>
    IF obj = <<>> \/ obj[1].ID # <<>>
    THEN output = <<>>
    ELSE /\ Len(output) = 1
         /\ DOMAIN output[1] = {"publisher", "offer", "sku", "version"}
         /\ output[1].publisher = (IF obj[1].Publisher = <<>> THEN "" ELSE obj[1].Publisher[1])
         /\ output[1].offer = (IF obj[1].Offer = <<>> THEN "" ELSE obj[1].Offer[1])
         /\ output[1].sku = (IF obj[1].Sku = <<>> THEN "" ELSE obj[1].Sku[1])
         /\ output[1].version = (IF obj[1].Version = <<>> THEN "" ELSE obj[1].Version[1])

\* an object with an ID and all four strings set flattens to no block
C6_Witness ==
  /\ kind = "image" /\ phase = "flattened"
  /\ obj # <<>>
  /\ obj[1].ID # <<>>
  /\ obj[1].Publisher # <<>> /\ obj[1].Offer # <<>>
  /\ obj[1].Sku # <<>> /\ obj[1].Version # <<>>
  /\ output = <<>>

----------------------------------------------------------------------------
(* Properties of FlattenVirtualMachineScaleSetUpgradePolicy *)

\* C7: an absent policy flattens to the empty list; a present one to a single
\* node whose automatic / rolling sub-list has one entry exactly when that
\* sub-policy is present (none is synthesized), unset scalars of a present
\* sub-policy reading false / 0 / "".
C7_AbsentSubPolicyFlattensEmpty ==
  (kind = "upgrade" /\ phase = "flattened") =>
    IF obj = <<>> THEN output = <<>>
    ELSE LET a == obj[1].AutomaticOSUpgradePolicy
             r == obj[1].RollingUpgradePolicy
             fa == output[1].automatic_os_upgrade_policy
             fr == output[1].rolling_upgrade_policy
         IN /\ Len(output) = 1
            /\ output[1].mode = obj[1].Mode
            /\ Len(fa) = (IF a = <<>> THEN 0 ELSE 1)
            /\ Len(fr) = (IF r = <<>> THEN 0 ELSE 1)
            /\ a # <<>> =>
                 /\ a[1].DisableAutomaticRollback = <<>> =>
                      fa[1].disable_automatic_rollback = FALSE
                 /\ a[1].EnableAutomaticOSUpgrade = <<>> =>
                      fa[1].enable_automatic_os_upgrade = FALSE
            /\ r # <<>> =>
                 /\ r[1].MaxBatchInstancePercent = <<>> =>
                      fr[1].max_batch_instance_percent = [hi |-> 0, lo |-> 0]
                 /\ r[1].MaxUnhealthyInstancePercent = <<>> =>
                      fr[1].max_unhealthy_instance_percent = [hi |-> 0, lo |-> 0]
                 /\ r[1].MaxUnhealthyUpgradedInstancePercent = <<>> =>
                      fr[1].max_unhealthy_upgraded_instance_percent = [hi |-> 0, lo |-> 0]
                 /\ r[1].PauseTimeBetweenBatches = <<>> =>
                      fr[1].pause_time_between_batches = ""

\* a read policy with an all-unset automatic sub-policy and no rolling one
C7_Witness ==
  /\ kind = "upgrade" /\ origin = "response" /\ phase = "flattened"
  /\ obj # <<>>
  /\ obj[1].RollingUpgradePolicy = <<>>
  /\ obj[1].AutomaticOSUpgradePolicy =
       <<[DisableAutomaticRollback |-> <<>>, EnableAutomaticOSUpgrade |-> <<>>]>>
  /\ output[1].rolling_upgrade_policy = <<>>
  /\ Len(output[1].automatic_os_upgrade_policy) = 1

\* the three percentages of a node fit a 32-bit signed integer
PercentagesFitInt32(n) ==
  RollingBlockPresent(n) =>
    /\ n.rolling_upgrade_policy[1].max_batch_instance_percent.hi = 0
    /\ n.rolling_upgrade_policy[1].max_unhealthy_instance_percent.hi = 0
    /\ n.rolling_upgrade_policy[1].max_unhealthy_upgraded_instance_percent.hi = 0

\* C9: for an accepted node whose percentages fit an int32, flattening the
\* expanded policy gives the node back; so the automatic sub-list is non-empty
\* only for mode Automatic, the rolling one only for mode Rolling, never both,
\* and both are empty for mode Manual.
C9_UpgradePolicyRoundTrip ==
  (kind = "upgrade" /\ origin = "config" /\ phase = "flattened"
     /\ PercentagesFitInt32(input[1])) =>
    /\ output = input
    /\ Len(output[1].automatic_os_upgrade_policy) > 0 => output[1].mode = "Automatic"
    /\ Len(output[1].rolling_upgrade_policy) > 0 => output[1].mode = "Rolling"
    /\ ~(Len(output[1].automatic_os_upgrade_policy) > 0
           /\ Len(output[1].rolling_upgrade_policy) > 0)
    /\ output[1].mode = "Manual" =>
         /\ output[1].automatic_os_upgrade_policy = <<>>
         /\ output[1].rolling_upgrade_policy = <<>>

C9_Witness ==
  /\ kind = "upgrade" /\ origin = "config" /\ phase = "flattened"
  /\ input[1].mode = "Rolling"
  /\ PercentagesFitInt32(input[1])
  /\ input[1].rolling_upgrade_policy[1].max_batch_instance_percent = [hi |-> 0, lo |-> 20]
  /\ input[1].rolling_upgrade_policy[1].max_unhealthy_instance_percent = [hi |-> 0, lo |-> -1]
  /\ output = input

----------------------------------------------------------------------------
(* Properties of ParseVirtualMachineScaleSetResourceID *)

\* C8: the parser returns an error and no identifier when the path helper
\* fails or the path has no, or an empty, virtualMachineScaleSets segment;
\* when it succeeds the Name is that segment's value and is not empty; exactly
\* one of identifier and error is returned.
C8_ParseNameOrError ==
  (kind = "id" /\ phase \in {"parsed", "failed"}) =>
    LET helper == ParseAzureResourceID(input)
        missing == \/ helper.err # ""
                   \/ "virtualMachineScaleSets" \notin DOMAIN helper.id[1].Path
                   \/ helper.id[1].Path["virtualMachineScaleSets"] = ""
    IN /\ (obj = <<>>) <=> (err # "")
       /\ missing => (obj = <<>> /\ err # "")
       /\ err = "" =>
            /\ obj[1].Name # ""
            /\ obj[1].Name = helper.id[1].Path["virtualMachineScaleSets"]
       /\ input = <<"subscriptions", "sub1", "virtualMachineScaleSets", "myScaleSet">>
            => (err = "" /\ obj[1].Name = "myScaleSet")

C8_Witness ==
  /\ kind = "id" /\ phase = "parsed"
  /\ input = <<"subscriptions", "sub1", "virtualMachineScaleSets", "myScaleSet">>
  /\ obj[1].Name = "myScaleSet"
  /\ err = ""

----------------------------------------------------------------------------
(* Properties of the additional-capabilities mapper *)

\* C10: expand never returns an absent object, so flatten after expand always
\* has one node: the input for a one-element input, {ultra_ssd_enabled: false}
\* for the empty input; flatten gives the empty list only for an absent object.
C10_CapabilitiesRoundTripNeverEmpty ==
  /\ (kind = "capabilities" /\ origin = "config" /\ phase \in {"expanded", "flattened"})
       => obj # <<>>
  /\ (kind = "capabilities" /\ origin = "config" /\ phase = "flattened") =>
       /\ Len(output) = 1
       /\ Len(input) = 1 => output = input
       /\ input = <<>> =>
            /\ obj[1].UltraSSDEnabled = <<>>
            /\ output = <<[ultra_ssd_enabled |-> FALSE]>>
            /\ output # input
  /\ (kind = "capabilities" /\ phase = "flattened") =>
       ((output = <<>>) <=> (obj = <<>>))

C10_Witness ==
  /\ kind = "capabilities" /\ origin = "config" /\ phase = "flattened"
  /\ input = <<>>
  /\ output = <<[ultra_ssd_enabled |-> FALSE]>>

====
